---------------------------- MODULE Spec2Model ----------------------------
(***************************************************************************)
(* Model of package zk of zookeepercli (src/zk/zk.go): the higher level    *)
(* commands over the ZooKeeper connector.                                  *)
(*                                                                         *)
(* Strings are sequences of one-character strings, so that splitting,      *)
(* joining, cleaning and comparing paths and ACL specifications are        *)
(* computed the way the Go code computes them.                             *)
(*                                                                         *)
(* The coordination service is the environment.  It is modelled as a       *)
(* namespace of znodes that answers each request from the state of the     *)
(* namespace (missing node, missing parent, existing node, node with       *)
(* children, malformed path, ephemeral and sequential create modes).  The  *)
(* session is authorised for every request: ACLs are stored with the       *)
(* nodes, the service does not check them.  The operators that model the   *)
(* service are named conn..., after the connection methods the code calls. *)
(***************************************************************************)
EXTENDS Integers, Sequences, FiniteSets, TLC

VARIABLES
    servers,        \* package variable servers
    authScheme,     \* package variable authScheme
    authExpression, \* package variable authExpression
    acl,            \* package variable acl
    tree,           \* the namespace of the service: path -> znode
    conns,          \* connections this process opened and has not closed
    network,        \* "reliable", or "faulty": requests and AddAuth may fail
    pc,             \* "idle": ready for a call; "done": a call has returned;
                    \* "exited": the process has ended
    last            \* the call that returned last: arguments, results, requests

vars == <<servers, authScheme, authExpression, acl, tree, conns, network, pc, last>>

----------------------------------------------------------------------------
(* Bounds of the model *)

\* most znodes below the root that creating calls may leave in the namespace
MaxNodes == 3
\* the same, under a faulty network
MaxFaultyNodes == 1
\* most znodes of the namespace that sequential creates made
MaxSequential == 1
\* most znodes below the root of a namespace the traversals start from
MaxTreeNodes == 4
\* frames of createInternal after which the Go stack is taken to overflow
MaxStack == 6
\* most connections left open that the model counts
MaxOpen == 1
\* the requests of a call that a faulty network may drop: the first MaxFaultAt
MaxFaultAt == 1

----------------------------------------------------------------------------
(* Strings *)

Nil == "nil"

\* byte value of the characters the model uses
Ord(c) ==
    CASE c = "," -> 44 [] c = "." -> 46 [] c = "/" -> 47
      [] c = "0" -> 48 [] c = "1" -> 49 [] c = "2" -> 50 [] c = "3" -> 51
      [] c = "4" -> 52 [] c = "5" -> 53 [] c = "6" -> 54 [] c = "7" -> 55
      [] c = "8" -> 56 [] c = "9" -> 57 [] c = ":" -> 58
      [] c = "a" -> 97 [] c = "b" -> 98 [] c = "c" -> 99 [] c = "d" -> 100
      [] c = "e" -> 101 [] c = "g" -> 103 [] c = "i" -> 105 [] c = "l" -> 108
      [] c = "n" -> 110 [] c = "o" -> 111 [] c = "p" -> 112 [] c = "r" -> 114
      [] c = "s" -> 115 [] c = "t" -> 116 [] c = "u" -> 117 [] c = "w" -> 119
      [] c = "x" -> 120 [] c = "y" -> 121 [] c = "z" -> 122
      [] OTHER -> 0

\* Go's < on strings: byte-wise lexicographic
RECURSIVE StrLess(_, _)
StrLess(s, t) ==
    IF t = <<>> THEN FALSE
    ELSE IF s = <<>> THEN TRUE
    ELSE IF Ord(Head(s)) # Ord(Head(t)) THEN Ord(Head(s)) < Ord(Head(t))
    ELSE StrLess(Tail(s), Tail(t))

\* strings.Split(s, sep) for a one-character separator
RECURSIVE SplitFrom(_, _, _)
SplitFrom(s, sep, cur) ==
    IF s = <<>> THEN <<cur>>
    ELSE IF Head(s) = sep THEN <<cur>> \o SplitFrom(Tail(s), sep, <<>>)
    ELSE SplitFrom(Tail(s), sep, Append(cur, Head(s)))

Split(s, sep) == SplitFrom(s, sep, <<>>)

\* strings.Join(parts, sep)
RECURSIVE JoinWith(_, _)
JoinWith(parts, sep) ==
    IF parts = <<>> THEN <<>>
    ELSE IF Len(parts) = 1 THEN parts[1]
    ELSE parts[1] \o <<sep>> \o JoinWith(Tail(parts), sep)

\* index of the last "/" of s, 0 when there is none
LastSlash(s) ==
    LET idx == {i \in 1..Len(s) : s[i] = "/"}
    IN IF idx = {} THEN 0 ELSE CHOOSE i \in idx : \A j \in idx : j <= i

\* sort.Sort(sort.StringSlice(s)): insertion into an ascending sequence
RECURSIVE InsertSorted(_, _)
InsertSorted(x, s) ==
    IF s = <<>> THEN <<x>>
    ELSE IF StrLess(Head(s), x) THEN <<Head(s)>> \o InsertSorted(x, Tail(s))
    ELSE <<x>> \o s

RECURSIVE SortStrings(_)
SortStrings(s) ==
    IF s = <<>> THEN <<>> ELSE InsertSorted(Head(s), SortStrings(Tail(s)))

RECURSIVE Reverse(_)
Reverse(s) == IF s = <<>> THEN <<>> ELSE Append(Reverse(Tail(s)), Head(s))

----------------------------------------------------------------------------
(* Package path of the Go library, as zk.go uses it *)

Dot == <<".">>
DotDot == <<".", ".">>
Root == <<"/">>

\* the element stack of path.Clean: "." and empty elements are dropped,
\* ".." removes the element before it, or is kept at the start of a
\* relative path, or is dropped at the root
RECURSIVE CleanElems(_, _, _)
CleanElems(elems, rooted, out) ==
    IF elems = <<>> THEN out
    ELSE LET e == Head(elems)
             rest == Tail(elems)
         IN IF e = <<>> \/ e = Dot THEN CleanElems(rest, rooted, out)
            ELSE IF e = DotDot
            THEN IF out # <<>> /\ out[Len(out)] # DotDot
                 THEN CleanElems(rest, rooted, SubSeq(out, 1, Len(out) - 1))
                 ELSE IF rooted THEN CleanElems(rest, rooted, out)
                 ELSE CleanElems(rest, rooted, Append(out, e))
            ELSE CleanElems(rest, rooted, Append(out, e))

\* path.Clean
Clean(p) ==
    IF p = <<>> THEN Dot
    ELSE LET rooted == Head(p) = "/"
             out == CleanElems(Split(p, "/"), rooted, <<>>)
         IN IF rooted THEN Root \o JoinWith(out, "/")
            ELSE IF out = <<>> THEN Dot
            ELSE JoinWith(out, "/")

\* path.Dir: everything up to the last slash, cleaned
Dir(p) == Clean(SubSeq(p, 1, LastSlash(p)))

\* path.Join of two elements
Join(a, b) ==
    IF a = <<>> /\ b = <<>> THEN <<>>
    ELSE IF a = <<>> THEN Clean(b)
    ELSE Clean(a \o Root \o b)

----------------------------------------------------------------------------
(* ACL specifications *)

PermRead == 1
PermWrite == 2
PermCreate == 4
PermDelete == 8
PermAdmin == 16
PermAll == 31

ErrInvalidACLString == "invalid ACL string specified"
Panic == "panic: index out of range"

\* perms |= bit, for a single bit
BitOr(perms, bit) == IF (perms \div bit) % 2 = 1 THEN perms ELSE perms + bit

HasBit(perms, bit) == (perms \div bit) % 2 = 1

Digits == {"0", "1", "2", "3", "4", "5", "6", "7", "8", "9"}

\* strconv.ParseFloat accepts the string: of the strings over the model's
\* characters exactly the non-empty strings of digits
IsNumber(s) == s # <<>> /\ \A i \in 1..Len(s) : s[i] \in Digits

RECURSIVE NumberValue(_)
NumberValue(s) ==
    IF s = <<>> THEN 0
    ELSE 10 * NumberValue(SubSeq(s, 1, Len(s) - 1)) + (Ord(s[Len(s)]) - 48)

\* the loop of parsePermsString over the characters of permstr
RECURSIVE PermsLoop(_, _)
PermsLoop(chars, perms) ==
    IF chars = <<>> THEN [perms |-> perms, err |-> Nil]
    ELSE LET c == Head(chars)
         IN IF c = "r" THEN PermsLoop(Tail(chars), BitOr(perms, PermRead))
            ELSE IF c = "w" THEN PermsLoop(Tail(chars), BitOr(perms, PermWrite))
            ELSE IF c = "c" THEN PermsLoop(Tail(chars), BitOr(perms, PermCreate))
            ELSE IF c = "d" THEN PermsLoop(Tail(chars), BitOr(perms, PermDelete))
            ELSE IF c = "a" THEN PermsLoop(Tail(chars), BitOr(perms, PermAdmin))
            ELSE [perms |-> perms, err |-> ErrInvalidACLString]

parsePermsString(permstr) ==
    IF IsNumber(permstr)
    THEN LET x == NumberValue(permstr)
         IN [perms |-> IF x < 31 THEN x ELSE 31, err |-> Nil]
    ELSE PermsLoop(permstr, 0)

Digest == <<"d", "i", "g", "e", "s", "t">>
World == <<"w", "o", "r", "l", "d">>
Anyone == <<"a", "n", "y", "o", "n", "e">>

\* zk.WorldACL(perms)
WorldACL(perms) == <<[Scheme |-> World, ID |-> Anyone, Perms |-> perms]>>

\* the loop of parseACLString over the entries; err is the error of the
\* entry parsed last, an entry with fewer than three parts is indexed out
\* of range
RECURSIVE ParseEntries(_, _, _)
ParseEntries(entries, list, err) ==
    IF entries = <<>> THEN [acl |-> list, err |-> err]
    ELSE LET parts == Split(Head(entries), ":")
         IN IF Len(parts) > 3 /\ parts[1] = Digest
            THEN LET r == parsePermsString(parts[4])
                     perm == [Scheme |-> parts[1],
                              ID |-> parts[2] \o <<":">> \o parts[3],
                              Perms |-> r.perms]
                 IN ParseEntries(Tail(entries),
                                 IF r.err = Nil THEN Append(list, perm) ELSE list,
                                 r.err)
            ELSE IF Len(parts) < 3 THEN [acl |-> list, err |-> Panic]
            ELSE LET r == parsePermsString(parts[3])
                     perm == [Scheme |-> parts[1], ID |-> parts[2],
                              Perms |-> r.perms]
                 IN ParseEntries(Tail(entries),
                                 IF r.err = Nil THEN Append(list, perm) ELSE list,
                                 r.err)

parseACLString(aclstr) == ParseEntries(Split(aclstr, ","), <<>>, Nil)

\* the permission letters aclsToString writes for one entry
PermLetters(perms) ==
    (IF HasBit(perms, PermCreate) THEN <<"c">> ELSE <<>>)
    \o (IF HasBit(perms, PermDelete) THEN <<"d">> ELSE <<>>)
    \o (IF HasBit(perms, PermRead) THEN <<"r">> ELSE <<>>)
    \o (IF HasBit(perms, PermWrite) THEN <<"w">> ELSE <<>>)
    \o (IF HasBit(perms, PermAdmin) THEN <<"a">> ELSE <<>>)

aclsToString(acls) ==
    [i \in 1..Len(acls) |->
        acls[i].Scheme \o <<":">> \o acls[i].ID \o <<":">> \o PermLetters(acls[i].Perms)]

----------------------------------------------------------------------------
(* The coordination service, as the requests of a connection see it *)

ErrNoServers == "zk: server list must not be empty"
ErrAuthFailed == "zk: authentication failed"
ErrConnectionClosed == "zk: connection closed"
ErrInvalidPath == "zk: invalid path"
ErrNoNode == "zk: node does not exist"
ErrNodeExists == "zk: node already exists"
ErrNotEmpty == "zk: node has children"
ErrBadArguments == "zk: invalid arguments"
ErrNoChildrenForEphemerals == "zk: ephemeral nodes may not have children"
StackOverflow == "fatal error: stack overflow"

FlagEphemeral == 1
FlagSequence == 2

\* the znode the service keeps for a path
Znode(data, a, eph) == [data |-> data, acl |-> a, eph |-> eph]

\* a well-formed znode path: absolute, no empty, "." or ".." component,
\* no trailing slash
ValidPath(p) ==
    /\ p # <<>>
    /\ Head(p) = "/"
    /\ \/ p = Root
       \/ LET cs == Split(Tail(p), "/")
          IN \A i \in 1..Len(cs) : cs[i] # <<>> /\ cs[i] # Dot /\ cs[i] # DotDot

\* the path of the parent znode and the name of a znode
ParentOf(p) == IF LastSlash(p) <= 1 THEN Root ELSE SubSeq(p, 1, LastSlash(p) - 1)
NameOf(p) == SubSeq(p, LastSlash(p) + 1, Len(p))

ChildrenOf(t, p) == {q \in DOMAIN t : q # Root /\ ParentOf(q) = p}

RECURSIVE SetToSeq(_)
SetToSeq(S) ==
    IF S = {} THEN <<>>
    ELSE LET x == CHOOSE y \in S : TRUE IN <<x>> \o SetToSeq(S \ {x})

\* a request is refused out of hand when the environment drops it
Dropped(s, env) == (Len(s.log) + 1) \in env.faults

Logged(s, op, path, err) == Append(s.log, [op |-> op, path |-> path, err |-> err])

\* connection.Exists(path)
connExists(s, path, env) ==
    LET err == IF Dropped(s, env) THEN ErrConnectionClosed
               ELSE IF ~ValidPath(path) THEN ErrInvalidPath
               ELSE Nil
    IN [tree |-> s.tree, log |-> Logged(s, "exists", path, err),
        exists |-> err = Nil /\ path \in DOMAIN s.tree, err |-> err]

\* the error of a request that reads or changes an existing znode
AccessErr(s, path, env) ==
    IF Dropped(s, env) THEN ErrConnectionClosed
    ELSE IF ~ValidPath(path) THEN ErrInvalidPath
    ELSE IF path \notin DOMAIN s.tree THEN ErrNoNode
    ELSE Nil

\* connection.Get(path)
connGet(s, path, env) ==
    LET err == AccessErr(s, path, env)
    IN [tree |-> s.tree, log |-> Logged(s, "get", path, err),
        data |-> IF err = Nil THEN s.tree[path].data ELSE <<>>, err |-> err]

\* connection.GetACL(path)
connGetACL(s, path, env) ==
    LET err == AccessErr(s, path, env)
    IN [tree |-> s.tree, log |-> Logged(s, "getacl", path, err),
        acl |-> IF err = Nil THEN s.tree[path].acl ELSE <<>>, err |-> err]

\* connection.Children(path): the names of the children, in the order the
\* service happens to list them
connChildren(s, path, env) ==
    LET err == AccessErr(s, path, env)
        names == SortStrings(SetToSeq({NameOf(q) : q \in ChildrenOf(s.tree, path)}))
    IN [tree |-> s.tree, log |-> Logged(s, "children", path, err),
        children |-> IF err # Nil THEN <<>>
                     ELSE IF env.rev THEN Reverse(names) ELSE names,
        err |-> err]

DigitChar(d) == <<"0", "1", "2", "3", "4", "5", "6", "7", "8", "9">>[d + 1]

\* fmt "%010d"
RECURSIVE Padded(_, _)
Padded(n, width) ==
    IF width = 0 THEN <<>> ELSE Append(Padded(n \div 10, width - 1), DigitChar(n % 10))

\* the counter a sequential create appends: the service's own; the model
\* takes the least value whose name is free
SequenceOf(t, path) ==
    CHOOSE n \in 0..Cardinality(DOMAIN t) :
        /\ path \o Padded(n, 10) \notin DOMAIN t
        /\ \A m \in 0..(n - 1) : path \o Padded(m, 10) \in DOMAIN t

\* connection.Create(path, data, flags, acl)
connCreate(s, path, data, flags, a, env) ==
    LET full == IF HasBit(flags, FlagSequence)
                THEN path \o Padded(SequenceOf(s.tree, path), 10) ELSE path
        err == IF Dropped(s, env) THEN ErrConnectionClosed
               ELSE IF path = <<>> \/ Head(path) # "/" THEN ErrInvalidPath
               ELSE IF ParentOf(path) \notin DOMAIN s.tree THEN ErrNoNode
               ELSE IF ~ValidPath(full) THEN ErrInvalidPath
               ELSE IF full \in DOMAIN s.tree THEN ErrNodeExists
               ELSE IF s.tree[ParentOf(path)].eph THEN ErrNoChildrenForEphemerals
               ELSE Nil
        node == Znode(data, a, HasBit(flags, FlagEphemeral))
    IN [tree |-> IF err = Nil
                 THEN [q \in DOMAIN s.tree \cup {full} |->
                          IF q = full THEN node ELSE s.tree[q]]
                 ELSE s.tree,
        log |-> Logged(s, "create", path, err),
        ret |-> IF err = Nil THEN full ELSE <<>>,
        err |-> err]

\* connection.Set(path, data, -1)
connSet(s, path, data, env) ==
    LET err == AccessErr(s, path, env)
    IN [tree |-> IF err = Nil THEN [s.tree EXCEPT ![path].data = data] ELSE s.tree,
        log |-> Logged(s, "set", path, err), err |-> err]

\* connection.SetACL(path, acl, -1)
connSetACL(s, path, a, env) ==
    LET err == AccessErr(s, path, env)
    IN [tree |-> IF err = Nil THEN [s.tree EXCEPT ![path].acl = a] ELSE s.tree,
        log |-> Logged(s, "setacl", path, err), err |-> err]

\* connection.Delete(path, -1)
connDelete(s, path, env) ==
    LET err == IF AccessErr(s, path, env) # Nil THEN AccessErr(s, path, env)
               ELSE IF path = Root THEN ErrBadArguments
               ELSE IF ChildrenOf(s.tree, path) # {} THEN ErrNotEmpty
               ELSE Nil
    IN [tree |-> IF err = Nil
                 THEN [q \in DOMAIN s.tree \ {path} |-> s.tree[q]]
                 ELSE s.tree,
        log |-> Logged(s, "delete", path, err), err |-> err]

\* connection.Close(): the session ends and its ephemeral znodes go
connClose(s) ==
    [tree |-> [q \in {x \in DOMAIN s.tree : ~s.tree[x].eph} |-> s.tree[q]],
     log |-> s.log]

----------------------------------------------------------------------------
(* The operations of package zk.  Each takes the session state s (the      *)
(* namespace and the log of requests so far) and the environment's choices *)
(* env, and returns the namespace and log after it with its results; leak  *)
(* counts the connections it opened and did not close, exit says that the  *)
(* process ended in it.                                                    *)

AutoGenerated ==
    <<"z", "o", "o", "k", "e", "e", "p", "e", "r", "c", "l", "i", " ",
      "a", "u", "t", "o", "-", "g", "e", "n", "e", "r", "a", "t", "e", "d">>

\* connect(): the connection is returned open when only AddAuth failed
connect(env) ==
    IF servers = <<>> THEN [open |-> FALSE, err |-> ErrNoServers]
    ELSE IF authScheme # <<>> /\ ~env.authOK THEN [open |-> TRUE, err |-> ErrAuthFailed]
    ELSE [open |-> TRUE, err |-> Nil]

\* what an operation returns when connect() failed: nothing is closed
NotConnected(s, c, ret) ==
    [tree |-> s.tree, log |-> s.log, ret |-> ret, err |-> c.err,
     leak |-> IF c.open THEN 1 ELSE 0, exit |-> FALSE]

\* what an operation returns after its deferred connection.Close()
Closed(r, ret, err) ==
    [tree |-> connClose(r).tree, log |-> r.log, ret |-> ret, err |-> err,
     leak |-> 0, exit |-> FALSE]

Exists(s, path, env) ==
    LET c == connect(env)
        r == connExists(s, path, env)
    IN IF c.err # Nil THEN NotConnected(s, c, FALSE) ELSE Closed(r, r.exists, r.err)

Get(s, path, env) ==
    LET c == connect(env)
        r == connGet(s, path, env)
    IN IF c.err # Nil THEN NotConnected(s, c, <<>>) ELSE Closed(r, r.data, r.err)

GetACL(s, path, env) ==
    LET c == connect(env)
        r == connGetACL(s, path, env)
    IN IF c.err # Nil THEN NotConnected(s, c, <<>>)
       ELSE Closed(r, aclsToString(r.acl), r.err)

Children(s, path, env) ==
    LET c == connect(env)
        r == connChildren(s, path, env)
    IN IF c.err # Nil THEN NotConnected(s, c, <<>>) ELSE Closed(r, r.children, r.err)

RECURSIVE childrenRecursiveInternal(_, _, _, _)
RECURSIVE ChildrenLoop(_, _, _, _, _, _, _)

\* the loop of childrenRecursiveInternal over the sorted children, from the
\* i-th on; an error of a nested call returns the children of path with it
ChildrenLoop(s, path, incrementalPath, children, i, recursiveChildren, env) ==
    IF i > Len(children)
    THEN [tree |-> s.tree, log |-> s.log, list |-> recursiveChildren, err |-> Nil]
    ELSE LET incrementalChild == Join(incrementalPath, children[i])
             sub == childrenRecursiveInternal(s, Join(path, children[i]),
                                              incrementalChild, env)
         IN IF sub.err # Nil
            THEN [tree |-> sub.tree, log |-> sub.log, list |-> children, err |-> sub.err]
            ELSE ChildrenLoop(sub, path, incrementalPath, children, i + 1,
                              recursiveChildren \o <<incrementalChild>> \o sub.list, env)

\* childrenRecursiveInternal without the sort of the children
childrenRecursiveInternalUnsorted(s, path, incrementalPath, env) ==
    LET r == connChildren(s, path, env)
    IN IF r.err # Nil
       THEN [tree |-> r.tree, log |-> r.log, list |-> r.children, err |-> r.err]
       ELSE ChildrenLoop(r, path, incrementalPath, r.children, 1, <<>>, env)

childrenRecursiveInternal(s, path, incrementalPath, env) ==
    LET r == connChildren(s, path, env)
    IN IF r.err # Nil
       THEN [tree |-> r.tree, log |-> r.log, list |-> r.children, err |-> r.err]
       ELSE ChildrenLoop(r, path, incrementalPath, SortStrings(r.children), 1, <<>>, env)

ChildrenRecursive(s, path, env) ==
    LET c == connect(env)
        r == childrenRecursiveInternal(s, path, <<>>, env)
    IN IF c.err # Nil THEN NotConnected(s, c, <<>>) ELSE Closed(r, r.list, r.err)

\* createInternal with the missing parents given the data of the path
RECURSIVE createInternalSameData(_, _, _, _, _, _, _, _)
createInternalSameData(s, path, data, a, force, flags, env, stack) ==
    IF stack = 0
    THEN [tree |-> s.tree, log |-> s.log, ret |-> <<>>, err |-> StackOverflow,
          overflow |-> TRUE]
    ELSE IF path = Root
    THEN [tree |-> s.tree, log |-> s.log, ret |-> Root, err |-> Nil, overflow |-> FALSE]
    ELSE LET first == connCreate(s, path, data, flags, a, env)
         IN IF first.err # Nil /\ force
            THEN LET up == createInternalSameData(first, Dir(path), data, a, force,
                                                  flags, env, stack - 1)
                     second == connCreate(up, path, data, flags, a, env)
                 IN IF up.overflow THEN up
                    ELSE [tree |-> second.tree, log |-> second.log, ret |-> second.ret,
                          err |-> second.err, overflow |-> FALSE]
            ELSE [tree |-> first.tree, log |-> first.log, ret |-> first.ret,
                  err |-> first.err, overflow |-> FALSE]

\* createInternal returning what the call for the parent returned, with no
\* second attempt on the path
RECURSIVE createInternalNoRetry(_, _, _, _, _, _, _, _)
createInternalNoRetry(s, path, data, a, force, flags, env, stack) ==
    IF stack = 0
    THEN [tree |-> s.tree, log |-> s.log, ret |-> <<>>, err |-> StackOverflow,
          overflow |-> TRUE]
    ELSE IF path = Root
    THEN [tree |-> s.tree, log |-> s.log, ret |-> Root, err |-> Nil, overflow |-> FALSE]
    ELSE LET first == connCreate(s, path, data, flags, a, env)
         IN IF first.err # Nil /\ force
            THEN createInternalNoRetry(first, Dir(path), AutoGenerated, a, force,
                                       flags, env, stack - 1)
            ELSE [tree |-> first.tree, log |-> first.log, ret |-> first.ret,
                  err |-> first.err, overflow |-> FALSE]

RECURSIVE createInternal(_, _, _, _, _, _, _, _)
\* createInternal; stack counts the frames the Go stack still has room for
createInternal(s, path, data, a, force, flags, env, stack) ==
    IF stack = 0
    THEN [tree |-> s.tree, log |-> s.log, ret |-> <<>>, err |-> StackOverflow,
          overflow |-> TRUE]
    ELSE IF path = Root
    THEN [tree |-> s.tree, log |-> s.log, ret |-> Root, err |-> Nil, overflow |-> FALSE]
    ELSE LET first == connCreate(s, path, data, flags, a, env)
         IN IF first.err # Nil /\ force
            THEN LET up == createInternal(first, Dir(path), AutoGenerated, a, force,
                                          flags, env, stack - 1)
                     second == connCreate(up, path, data, flags, a, env)
                 IN IF up.overflow THEN up
                    ELSE [tree |-> second.tree, log |-> second.log, ret |-> second.ret,
                          err |-> second.err, overflow |-> FALSE]
            ELSE [tree |-> first.tree, log |-> first.log, ret |-> first.ret,
                  err |-> first.err, overflow |-> FALSE]

RECURSIVE createInternalWithACL(_, _, _, _, _, _, _, _)
createInternalWithACL(s, path, data, force, perms, flags, env, stack) ==
    IF stack = 0
    THEN [tree |-> s.tree, log |-> s.log, ret |-> <<>>, err |-> StackOverflow,
          overflow |-> TRUE]
    ELSE IF path = Root
    THEN [tree |-> s.tree, log |-> s.log, ret |-> Root, err |-> Nil, overflow |-> FALSE]
    ELSE LET first == connCreate(s, path, data, flags, perms, env)
         IN IF first.err # Nil /\ force
            THEN LET up == createInternalWithACL(first, Dir(path), AutoGenerated, force,
                                                 perms, flags, env, stack - 1)
                     second == connCreate(up, path, data, flags, perms, env)
                 IN IF up.overflow THEN up
                    ELSE [tree |-> second.tree, log |-> second.log, ret |-> second.ret,
                          err |-> second.err, overflow |-> FALSE]
            ELSE [tree |-> first.tree, log |-> first.log, ret |-> first.ret,
                  err |-> first.err, overflow |-> FALSE]

\* the end of an operation that created: the stack overflow ends the process
Created(r) ==
    [tree |-> connClose(r).tree, log |-> r.log, ret |-> r.ret, err |-> r.err,
     leak |-> 0, exit |-> r.overflow]

\* Create; acl is the package variable, which the parsed aclstr is assigned to
Create(s, path, data, aclstr, force, flags, env) ==
    LET c == connect(env)
        parsed == parseACLString(aclstr)
    IN IF c.err # Nil
       THEN NotConnected(s, c, <<>>) @@ [acl |-> acl, applied |-> <<>>]
       ELSE IF Len(aclstr) > 0 /\ parsed.err = Panic
       THEN [Closed(s, <<>>, Panic) EXCEPT !.exit = TRUE] @@ [acl |-> acl, applied |-> <<>>]
       ELSE IF Len(aclstr) > 0 /\ parsed.err # Nil
       THEN Closed(s, <<>>, parsed.err) @@ [acl |-> parsed.acl, applied |-> <<>>]
       ELSE LET a == IF Len(aclstr) > 0 THEN parsed.acl ELSE acl
            IN Created(createInternal(s, path, data, a, force, flags, env, MaxStack))
               @@ [acl |-> a, applied |-> a]

CreateWithACL(s, path, data, force, perms, flags, env) ==
    LET c == connect(env)
    IN IF c.err # Nil THEN NotConnected(s, c, <<>>)
       ELSE Created(createInternalWithACL(s, path, data, force, perms, flags, env, MaxStack))

Set(s, path, data, env) ==
    LET c == connect(env)
        r == connSet(s, path, data, env)
    IN IF c.err # Nil THEN NotConnected(s, c, <<>>) ELSE Closed(r, <<>>, r.err)

\* SetACL; flags is the package variable flags, which is 0
SetACL(s, path, aclstr, force, env) ==
    LET c == connect(env)
        parsed == parseACLString(aclstr)
        ex == connExists(s, path, env)
        set == connSetACL(IF force THEN ex ELSE s, path, parsed.acl, env)
    IN IF c.err # Nil THEN NotConnected(s, c, <<>>)
       ELSE IF parsed.err = Panic THEN [Closed(s, <<>>, Panic) EXCEPT !.exit = TRUE]
       ELSE IF parsed.err # Nil THEN Closed(s, <<>>, parsed.err)
       ELSE IF force /\ ex.err # Nil THEN Closed(ex, <<>>, ex.err)
       ELSE IF force /\ ~ex.exists
       THEN Created(createInternal(ex, path, <<>>, parsed.acl, force, 0, env, MaxStack))
       ELSE Closed(set, path, set.err)

Delete(s, path, env) ==
    LET c == connect(env)
        r == connDelete(s, path, env)
    IN IF c.err # Nil THEN NotConnected(s, c, <<>>) ELSE Closed(r, <<>>, r.err)

\* log.Fatale(err): the process ends
Fatal(r) == [r EXCEPT !.exit = TRUE]

\* the loop of DeleteRecursive, from the i-th element of result downwards
RECURSIVE DeleteLoop(_, _, _, _, _)
DeleteLoop(s, path, result, i, env) ==
    IF i < 1 THEN Delete(s, path, env)
    ELSE LET znode == path \o <<"/">> \o result[i]
             d == Delete(s, znode, env)
         IN IF d.err # Nil THEN Fatal(d) ELSE DeleteLoop(d, path, result, i - 1, env)

\* DeleteRecursive walking the list from its first element
DeleteRecursiveForward(s, path, env) ==
    LET cr == ChildrenRecursive(s, path, env)
    IN IF cr.err # Nil THEN Fatal(cr)
       ELSE DeleteLoop(cr, path, Reverse(cr.ret), Len(cr.ret), env)

DeleteRecursive(s, path, env) ==
    LET cr == ChildrenRecursive(s, path, env)
    IN IF cr.err # Nil THEN Fatal(cr)
       ELSE DeleteLoop(cr, path, cr.ret, Len(cr.ret), env)

----------------------------------------------------------------------------
(* Arguments and the environment's choices *)

\* "/", "/a", "/b", "/a/a", "/a/b", "/a/a/a"
AbsPaths ==
    {Root, <<"/", "a">>, <<"/", "b">>, <<"/", "a", "/", "a">>, <<"/", "a", "/", "b">>,
     <<"/", "a", "/", "a", "/", "a">>}

\* the empty path, a relative path and a path with a trailing slash
OddPaths == {<<>>, <<"a">>, <<"/", "a", "/">>}

PathArgs == AbsPaths \cup OddPaths

DataArgs == {<<"x">>}

AclRead == World \o <<":">> \o Anyone \o <<":", "r">>
AclBad == World \o <<":">> \o Anyone \o <<":", "z">>

\* "", "world:anyone:r", "world:anyone:r,world:anyone:z"
AclArgs == {<<>>, AclRead, AclRead \o <<",">> \o AclBad}

PermsArgs == {WorldACL(PermRead)}

FlagArgs == {0, FlagEphemeral, FlagSequence}

Faults == IF network = "faulty" THEN SUBSET (1..MaxFaultAt) ELSE {{}}
AuthOutcomes == IF network = "faulty" /\ authScheme # <<>> THEN BOOLEAN ELSE {TRUE}

\* the environment's choices during one call: the requests it drops, the
\* order it lists children in, the outcome of AddAuth
Envs(revs) == [faults : Faults, rev : revs, authOK : AuthOutcomes]

Session == [tree |-> tree, log |-> <<>>]

NoCall ==
    [op |-> "none", path |-> <<>>, data |-> <<>>, aclstr |-> <<>>, force |-> FALSE,
     flags |-> 0, ret |-> <<>>, err |-> Nil, pre |-> <<>>, log |-> <<>>,
     applied |-> <<>>, leak |-> 0, exit |-> FALSE]

----------------------------------------------------------------------------
(* The state machine *)

RootNode == Znode(<<>>, WorldACL(PermAll), FALSE)

\* the namespaces a process may find: the znodes of AbsPaths, each with its
\* parent, as a Create or a forced Create left them
NodeKinds == {Znode(<<"x">>, WorldACL(PermAll), FALSE),
              Znode(AutoGenerated, WorldACL(PermRead), FALSE)}

Namespaces ==
    UNION {[S \cup {Root} -> NodeKinds \cup {RootNode}] :
              S \in {T \in SUBSET (AbsPaths \ {Root}) :
                        /\ Cardinality(T) <= MaxTreeNodes
                        /\ \A q \in T : ParentOf(q) \in T \cup {Root}}}

InitProcess(srv, net) ==
    /\ servers = srv
    /\ authScheme = <<>>
    /\ authExpression = <<>>
    /\ acl = WorldACL(PermAll)
    /\ conns = 0
    /\ network = net
    /\ pc = "idle"
    /\ last = NoCall

\* a process as the package initialises it, a namespace with the root only
Init ==
    /\ InitProcess(<<>>, "faulty")
    /\ tree = [p \in {Root} |-> RootNode]

SetServers ==
    /\ pc = "idle"
    /\ \E serversArray \in {<<"zk1">>} :
           /\ servers' = serversArray
           /\ UNCHANGED <<authScheme, authExpression, acl, tree, conns, network, pc, last>>

SetAuth ==
    /\ pc = "idle"
    /\ \E a \in {[scheme |-> <<>>, auth |-> <<>>],
                 [scheme |-> Digest, auth |-> <<"u", ":", "p">>]} :
           /\ authScheme' = a.scheme
           /\ authExpression' = a.auth
           /\ UNCHANGED <<servers, acl, tree, conns, network, pc, last>>

Quota == IF network = "faulty" THEN MaxFaultyNodes ELSE MaxNodes

\* the name of q ends with the ten digits of a sequential create
IsSequential(q) ==
    /\ Len(NameOf(q)) >= 10
    /\ \A i \in (Len(q) - 9)..Len(q) : q[i] \in Digits

\* the namespaces the model follows
WithinBounds(t) ==
    /\ Cardinality(DOMAIN t) <= Quota + 1
    /\ Cardinality({q \in DOMAIN t : IsSequential(q)}) <= MaxSequential

\* a call returns r: the namespace and the process state after it, and the
\* record of the call
Returns(call, r, newacl) ==
    /\ \/ Cardinality(DOMAIN r.tree) <= Cardinality(DOMAIN tree)
       \/ WithinBounds(r.tree)
    /\ conns + r.leak <= MaxOpen
    /\ tree' = r.tree
    /\ acl' = newacl
    /\ conns' = IF r.exit THEN 0 ELSE conns + r.leak
    /\ pc' = IF r.exit THEN "exited" ELSE "done"
    /\ last' = [call EXCEPT !.ret = r.ret, !.err = r.err, !.pre = tree, !.log = r.log,
                            !.leak = r.leak, !.exit = r.exit]
    /\ UNCHANGED <<servers, authScheme, authExpression, network>>

CallExists ==
    /\ pc = "idle"
    /\ \E path \in PathArgs, env \in Envs({FALSE}) :
           Returns([NoCall EXCEPT !.op = "Exists", !.path = path],
                   Exists(Session, path, env), acl)

CallGet ==
    /\ pc = "idle"
    /\ \E path \in PathArgs, env \in Envs({FALSE}) :
           Returns([NoCall EXCEPT !.op = "Get", !.path = path],
                   Get(Session, path, env), acl)

CallGetACL ==
    /\ pc = "idle"
    /\ \E path \in PathArgs, env \in Envs({FALSE}) :
           Returns([NoCall EXCEPT !.op = "GetACL", !.path = path],
                   GetACL(Session, path, env), acl)

CallChildren ==
    /\ pc = "idle"
    /\ \E path \in PathArgs, env \in Envs(BOOLEAN) :
           Returns([NoCall EXCEPT !.op = "Children", !.path = path],
                   Children(Session, path, env), acl)

CallChildrenRecursive ==
    /\ pc = "idle"
    /\ \E path \in PathArgs, env \in Envs(BOOLEAN) :
           Returns([NoCall EXCEPT !.op = "ChildrenRecursive", !.path = path],
                   ChildrenRecursive(Session, path, env), acl)

CallCreate ==
    /\ pc = "idle"
    /\ \E path \in PathArgs, data \in DataArgs, aclstr \in AclArgs, force \in BOOLEAN,
          flags \in FlagArgs, env \in Envs({FALSE}) :
           LET r == Create(Session, path, data, aclstr, force, flags, env)
           IN Returns([NoCall EXCEPT !.op = "Create", !.path = path, !.data = data,
                                     !.aclstr = aclstr, !.force = force, !.flags = flags,
                                     !.applied = r.applied],
                      r, r.acl)

CallCreateWithACL ==
    /\ pc = "idle"
    /\ \E path \in PathArgs, data \in DataArgs, force \in BOOLEAN, perms \in PermsArgs,
          flags \in FlagArgs, env \in Envs({FALSE}) :
           Returns([NoCall EXCEPT !.op = "CreateWithACL", !.path = path, !.data = data,
                                   !.force = force, !.flags = flags, !.applied = perms],
                   CreateWithACL(Session, path, data, force, perms, flags, env), acl)

CallSet ==
    /\ pc = "idle"
    /\ \E path \in PathArgs, data \in DataArgs, env \in Envs({FALSE}) :
           Returns([NoCall EXCEPT !.op = "Set", !.path = path, !.data = data],
                   Set(Session, path, data, env), acl)

CallSetACL ==
    /\ pc = "idle"
    /\ \E path \in PathArgs, aclstr \in AclArgs, force \in BOOLEAN, env \in Envs({FALSE}) :
           Returns([NoCall EXCEPT !.op = "SetACL", !.path = path, !.aclstr = aclstr,
                                   !.force = force],
                   SetACL(Session, path, aclstr, force, env), acl)

CallDelete ==
    /\ pc = "idle"
    /\ \E path \in PathArgs, env \in Envs({FALSE}) :
           Returns([NoCall EXCEPT !.op = "Delete", !.path = path],
                   Delete(Session, path, env), acl)

CallDeleteRecursive ==
    /\ pc = "idle"
    /\ \E path \in PathArgs, env \in Envs(BOOLEAN) :
           Returns([NoCall EXCEPT !.op = "DeleteRecursive", !.path = path],
                   DeleteRecursive(Session, path, env), acl)

\* the caller takes the result and is ready for its next call
Resume ==
    /\ pc = "done"
    /\ pc' = "idle"
    /\ last' = NoCall
    /\ UNCHANGED <<servers, authScheme, authExpression, acl, tree, conns, network>>

\* the whole package, over a network that may fail
Next ==
    \/ SetServers
    \/ SetAuth
    \/ CallExists
    \/ CallGet
    \/ CallGetACL
    \/ CallChildren
    \/ CallChildrenRecursive
    \/ CallCreate
    \/ CallCreateWithACL
    \/ CallSet
    \/ CallSetACL
    \/ CallDelete
    \/ CallDeleteRecursive
    \/ Resume

Spec == Init /\ [][Next]_vars

\* a process with its servers set, creating znodes in a namespace that
\* starts with the root only, over a reliable network
InitCreate ==
    /\ InitProcess(<<"zk1">>, "reliable")
    /\ tree = [p \in {Root} |-> RootNode]

NextCreate ==
    \/ CallCreate
    \/ Resume

SpecCreate == InitCreate /\ [][NextCreate]_vars

\* a process with its servers set, reading and deleting in a namespace it
\* finds, over a reliable network
InitTraverse ==
    /\ InitProcess(<<"zk1">>, "reliable")
    /\ tree \in Namespaces

NextTraverse ==
    \/ CallExists
    \/ CallGet
    \/ CallGetACL
    \/ CallChildren
    \/ CallChildrenRecursive
    \/ CallDelete
    \/ CallDeleteRecursive
    \/ Resume

SpecTraverse == InitTraverse /\ [][NextTraverse]_vars

----------------------------------------------------------------------------
(* parseACLString on its own: every specification of at most MaxEntries    *)
(* entries, each world:anyone:<perms>, digest:u:h:<perms> or the bare      *)
(* word world, the permission strings of at most MaxPermLen characters     *)

MaxEntries == 2
MaxPermLen == 2

PermChars == {"r", "w", "z", "7"}

PermStrings == UNION {[1..n -> PermChars] : n \in 0..MaxPermLen}

Entries ==
    {World \o <<":">> \o Anyone \o <<":">> \o ps : ps \in PermStrings}
    \cup {Digest \o <<":", "u", ":", "h", ":">> \o ps : ps \in PermStrings}
    \cup {World}

AclSpecs ==
    {JoinWith(es, ",") : es \in UNION {[1..n -> Entries] : n \in 1..MaxEntries}}

CallParseACLString ==
    /\ pc = "idle"
    /\ \E aclstr \in AclSpecs :
           LET parsed == parseACLString(aclstr)
           IN /\ pc' = "done"
              /\ last' = [NoCall EXCEPT !.op = "parseACLString", !.aclstr = aclstr,
                                        !.ret = parsed.acl, !.err = parsed.err]
              /\ UNCHANGED <<servers, authScheme, authExpression, acl, tree, conns, network>>

NextParse ==
    \/ CallParseACLString
    \/ Resume

SpecParse == InitCreate /\ [][NextParse]_vars

----------------------------------------------------------------------------
(* Properties *)

\* the positions of the slashes of p
Slashes(p) == {i \in 1..Len(p) : p[i] = "/"}

\* the znodes strictly between the root and p
Ancestors(p) == {SubSeq(p, 1, i - 1) : i \in Slashes(p) \ {1}}

\* q lies strictly below p
IsDescendant(q, p) ==
    IF p = Root THEN q # Root
    ELSE /\ Len(q) > Len(p) + 1
         /\ SubSeq(q, 1, Len(p)) = p
         /\ q[Len(p) + 1] = "/"

Descendants(t, p) == {q \in DOMAIN t : IsDescendant(q, p)}

\* every znode of the namespace before the call is there as it was
Kept(before, after) ==
    \A q \in DOMAIN before : q \in DOMAIN after /\ after[q] = before[q]

\* the ACL specification is empty or parseACLString accepts it
Accepted(aclstr) == aclstr = <<>> \/ parseACLString(aclstr).err = Nil

C2_DeleteRecursive ==
    ( /\ last.op = "DeleteRecursive"
      /\ last.path \in DOMAIN last.pre
      /\ last.path # Root )
    => LET deletes == SelectSeq(last.log, LAMBDA e : e.op = "delete")
       IN /\ last.err = Nil
          /\ ~last.exit
          /\ \A i \in 1..Len(deletes) :
                /\ deletes[i].err = Nil
                /\ \A q \in Descendants(last.pre, deletes[i].path) :
                      \E k \in 1..(i - 1) : deletes[k].path = q
          /\ DOMAIN tree = DOMAIN last.pre \ ({last.path} \cup Descendants(last.pre, last.path))
          /\ Kept(tree, last.pre)

\* DeleteRecursive of "/a" returned where "/a/a/a" and "/b" were there
C2_Witness ==
    /\ last.op = "DeleteRecursive"
    /\ last.path = <<"/", "a">>
    /\ <<"/", "a", "/", "a", "/", "a">> \in DOMAIN last.pre
    /\ <<"/", "b">> \in DOMAIN last.pre
    /\ pc = "done"

\* p comes before q in the depth-first pre-order with siblings ascending:
\* at the first component where they differ p has the smaller one, or p has
\* no more components
RECURSIVE ComponentsBefore(_, _)
ComponentsBefore(cp, cq) ==
    IF cp = <<>> THEN cq # <<>>
    ELSE IF cq = <<>> THEN FALSE
    ELSE IF Head(cp) = Head(cq) THEN ComponentsBefore(Tail(cp), Tail(cq))
    ELSE StrLess(Head(cp), Head(cq))

PreOrderBefore(p, q) == ComponentsBefore(Split(p, "/"), Split(q, "/"))

\* the znode a subpath of path names
Below(path, sub) == IF path = Root THEN Root \o sub ELSE path \o <<"/">> \o sub

\* C3: ChildrenRecursive on an existing path returns no error and the list
\* of the descendants of the path: each once and nothing else, each as a
\* subpath relative to the path with no leading separator, in depth-first
\* pre-order with siblings in ascending order.
C3_ChildrenRecursive ==
    ( /\ last.op = "ChildrenRecursive"
      /\ last.path \in DOMAIN last.pre )
    => /\ last.err = Nil
       /\ \A i \in 1..Len(last.ret) : last.ret[i] # <<>> /\ Head(last.ret[i]) # "/"
       /\ {Below(last.path, last.ret[i]) : i \in 1..Len(last.ret)}
             = Descendants(last.pre, last.path)
       /\ \A i, j \in 1..Len(last.ret) : i < j => PreOrderBefore(last.ret[i], last.ret[j])
       /\ \A i, j \in 1..Len(last.ret) :
             IsDescendant(Below(last.path, last.ret[j]), Below(last.path, last.ret[i]))
                => i < j

\* ChildrenRecursive of "/" returned where "/a/a", "/a/b" and "/b" were there
C3_Witness ==
    /\ last.op = "ChildrenRecursive"
    /\ last.path = Root
    /\ {<<"/", "a", "/", "a">>, <<"/", "a", "/", "b">>, <<"/", "b">>} \subseteq DOMAIN last.pre
    /\ Len(last.ret) = 4
    /\ pc = "done"

C5_ConnectionsClosed == conns = 0

\* the components of a path argument
Components(p) == {i \in 1..Len(Split(p, "/")) : Split(p, "/")[i] # <<>>}

\* C6, as claimed: a forced Create returns, after at most two create requests
\* for each component of its path.
C6_ForcedCreateTerminates ==
    ( /\ last.op = "Create"
      /\ last.force )
    => /\ last.err # StackOverflow
       /\ Len(SelectSeq(last.log, LAMBDA e : e.op = "create"))
             <= 2 * Cardinality(Components(last.path))

\* C7, as claimed: the ACL that Create applies when aclstr is empty is
\* world:anyone with all permissions.
C7_DefaultACL ==
    ( /\ last.op = "Create"
      /\ last.aclstr = <<>>
      /\ last.log # <<>> )
    => last.applied = WorldACL(PermAll)

\* the permission string parseACLString takes from an entry
PermsOf(entry) ==
    LET parts == Split(entry, ":")
    IN IF Len(parts) > 3 /\ parts[1] = Digest THEN parts[4] ELSE parts[3]

\* C8, as claimed: parseACLString returns an error when the permission
\* string of any entry is invalid.
C8_InvalidEntryRejected ==
    ( /\ last.op = "parseACLString"
      /\ \E i \in 1..Len(Split(last.aclstr, ",")) :
            /\ Len(Split(Split(last.aclstr, ",")[i], ":")) >= 3
            /\ parsePermsString(PermsOf(Split(last.aclstr, ",")[i])).err # Nil )
    => last.err # Nil

=============================================================================
